---------------------------- MODULE Spec2Model ----------------------------
(***************************************************************************)
(* Model of the part-number reconciliation scripts:                        *)
(*   sort_artic_2.py  normalizer and variant generator                     *)
(*   search_3.py      catalog index and matcher (VTRACFinder)              *)
(*   end_4.py         identifier propagation and consensus (VtracProcessor)*)
(*                                                                         *)
(* A Python str is a sequence of one-character strings.  A missing cell    *)
(* (pandas NaN / None) is the one-element sequence NaN, whose element is   *)
(* no character.                                                           *)
(***************************************************************************)
EXTENDS Naturals, Integers, Sequences, FiniteSets, TLC

VARIABLES
    \* sort_artic_2.py : one call of a text function
    art,            \* the raw argument
    original_art,   \* process_articul's second argument
    op,             \* which function has been applied
    cleaned,        \* clean_art's return value
    valid,          \* is_valid_art's return value
    variants,       \* process_articul's return value (a list built from a set)
    nomenclature,   \* extract_from_nomenclature's first argument
    articuls,       \* extract_from_nomenclature's return value
    \* search_3.py : VTRACFinder
    cpc,            \* "loading", "ready", or the method called last
    catalog_df,     \* the rows of catalog_df that load_catalog has iterated
    entry,          \* the catalog row load_catalog iterated last
    loaded,         \* how many catalog rows load_catalog has iterated
    article_dict,   \* self.article_dict, in insertion order
    analog_dict,    \* self.analog_dict, in insertion order
    article,        \* find_vtrac's argument
    row,            \* process_row's argument: the six part-number fields
    found_vtracs,   \* the list find_vtrac / process_row returned
    \* end_4.py : one call of find_common_vtrac
    kpc,            \* "input", then "find_common_vtrac"
    vtrac_values,   \* the argument: a list of identifier slots
    common_vtrac,   \* the return value, NaN for None
    \* one run of search_3.py (process_dataframe) or of end_4.py (process)
    script,         \* "search_3" or "end_4"
    workers,        \* max_workers of the thread pool
    set_order,      \* the iteration order of the run's sets of identifiers
    faulty,         \* <<stage, start>> of the task that raises, or NoFault
    df0,            \* the table as loaded
    df,             \* the table: tabl_out_df / self.df
    articul_to_vtrac, \* self.articul_to_vtrac, as a set of <<articul, vtrac>>
    rpc,            \* the main thread's position
    stage,          \* 0: row matching, 1: propagation, 2: consensus
    next_start,     \* the submission loop's i
    tasks,          \* the futures submitted in this stage, in order
    pending,        \* the result apply_* is iterating
    results         \* process_dataframe's results list

textVars == <<art, original_art, op, cleaned, valid, variants, nomenclature,
              articuls>>
finderVars == <<cpc, catalog_df, entry, loaded, article_dict, analog_dict,
                article, row, found_vtracs>>
clusterVars == <<kpc, vtrac_values, common_vtrac>>
runVars == <<script, workers, set_order, faulty, df0, df, articul_to_vtrac, rpc,
             stage, next_start, tasks, pending, results>>
vars == <<textVars, finderVars, clusterVars, runVars>>

\* the variables of the other scripts, which a step of one script leaves alone
nonTextVars == <<finderVars, clusterVars, runVars>>
nonFinderVars == <<textVars, clusterVars, runVars>>
nonClusterVars == <<textVars, finderVars, runVars>>
nonRunVars == <<textVars, finderVars, clusterVars>>

----------------------------------------------------------------------------
(* Bounds of the model *)

\* longest raw string enumerated exhaustively for the text functions
MaxLen == 5

\* most catalog rows load_catalog iterates
MaxCatalog == 2

\* longest identifier list find_common_vtrac is called with
MaxIds == 4

\* most rows of the table a run processes
MaxRows == 3

----------------------------------------------------------------------------
(* Python str primitives *)

NaN == <<"<NaN>">>

\* pd.isna
IsNa(v) == v = NaN

\* the characters matched by the regular-expression class \s and removed by
\* str.strip()
Whitespace == {" ", "\t", "\n"}

Max(S) == CHOOSE m \in S : \A k \in S : k <= m
Min(S) == CHOOSE m \in S : \A k \in S : m <= k

UpperChar(c) ==
    CASE c = "a" -> "A"
      [] c = "b" -> "B"
      [] c = "n" -> "N"
      [] c = "x" -> "X"
      [] c = "c" -> "C"
      [] c = "d" -> "D"
      [] c = "cy_a" -> "CY_A"
      [] c = "cy_o" -> "CY_O"
      [] c = "cy_r" -> "CY_R"
      [] c = "cy_s" -> "CY_S"
      [] c = "cy_t" -> "CY_T"
      [] OTHER -> c

\* str.upper()
Upper(s) == [i \in 1..Len(s) |-> UpperChar(s[i])]

\* str.strip()
Strip(s) ==
    LET keep == {i \in 1..Len(s) : s[i] \notin Whitespace}
    IN  IF keep = {} THEN <<>> ELSE SubSeq(s, Min(keep), Max(keep))

\* c in s
Contains(s, c) == \E i \in 1..Len(s) : s[i] = c

\* s.startswith(p)
StartsWith(s, p) == Len(p) <= Len(s) /\ SubSeq(s, 1, Len(p)) = p

\* s[:n] for n >= 0
Take(s, n) == SubSeq(s, 1, IF n < Len(s) THEN n ELSE Len(s))

\* s[:-n] for n > 0
DropLast(s, n) == SubSeq(s, 1, IF Len(s) > n THEN Len(s) - n ELSE 0)

\* s.split(c, maxsplit): the list of segments
RECURSIVE Split(_, _, _)
Split(s, c, maxsplit) ==
    IF maxsplit = 0 \/ ~Contains(s, c)
    THEN <<s>>
    ELSE LET i == Min({k \in 1..Len(s) : s[k] = c})
         IN  <<SubSeq(s, 1, i - 1)>> \o
             Split(SubSeq(s, i + 1, Len(s)), c, maxsplit - 1)

\* s.rsplit(c, 1)[0]
RSplitHead(s, c) ==
    IF ~Contains(s, c) THEN s
    ELSE SubSeq(s, 1, Max({k \in 1..Len(s) : s[k] = c}) - 1)

\* c.join(parts)
RECURSIVE Join(_, _)
Join(parts, c) ==
    IF Len(parts) = 0 THEN <<>>
    ELSE IF Len(parts) = 1 THEN parts[1]
    ELSE parts[1] \o <<c>> \o Join(Tail(parts), c)

\* s.replace(c, r) for a one-character c
RECURSIVE Replace(_, _, _)
Replace(s, c, r) ==
    IF Len(s) = 0 THEN <<>>
    ELSE (IF Head(s) = c THEN r ELSE <<Head(s)>>) \o Replace(Tail(s), c, r)

----------------------------------------------------------------------------
(* sort_artic_2.py *)

\* re.sub(r'[-/\s]+$', '', art): the trailing run of dashes, slashes and
\* whitespace is removed
StripTrailingRun(s) ==
    LET keep == {i \in 1..Len(s) : s[i] \notin ({"-", "/"} \cup Whitespace)}
    IN  IF keep = {} THEN <<>> ELSE SubSeq(s, 1, Max(keep))

\* a normalizer that strips only trailing dashes and slashes
clean_art_no_ws(s) ==
    LET keep == {i \in 1..Len(s) : s[i] \notin {"-", "/"}}
        t    == IF keep = {} THEN <<>> ELSE SubSeq(s, 1, Max(keep))
    IN  Upper(SelectSeq(t, LAMBDA c : c # " "))

clean_art(s) ==
    Upper(SelectSeq(StripTrailingRun(s), LAMBDA c : c # " "))

is_valid_art(s) == Len(s) >= 4 /\ ~Contains(s, " ")

\* lines 27-47: the variants derived from the hyphens of articul
HyphenVariants(articul) ==
    IF ~Contains(articul, "-") THEN {}
    ELSE
      LET part_before_last_dash == RSplitHead(articul, "-")
          truncated == clean_art(DropLast(part_before_last_dash, 2))
          parts     == Split(articul, "-", 2)
          first_two == Join(SubSeq(parts, 1, 2), "-")
      IN  (IF is_valid_art(part_before_last_dash)
           THEN {clean_art(part_before_last_dash)} \cup
                (IF Len(part_before_last_dash) >= 7 /\ is_valid_art(truncated)
                 THEN {truncated} ELSE {})
           ELSE {})
          \cup
          (IF Len(parts) >= 2 /\ is_valid_art(first_two)
           THEN {clean_art(first_two)} ELSE {})
          \cup
          (IF Len(parts) >= 3 /\ is_valid_art(parts[3])
           THEN {clean_art(parts[3])} ELSE {})

\* lines 50-67: the variants derived from the slashes of articul
SlashVariants(articul) ==
    IF ~Contains(articul, "/") THEN {}
    ELSE
      LET replaced_with_dash   == clean_art(Replace(articul, "/", <<"-">>))
          replaced_with_space  == clean_art(Replace(articul, "/", <<" ", "/", " ">>))
          replaced_with_hyphen == clean_art(Replace(articul, "/", <<" ", "-", " ">>))
          parts == Split(articul, "/", Len(articul))
      IN  {v \in {replaced_with_dash, replaced_with_space, replaced_with_hyphen} :
              is_valid_art(v)}
          \cup
          {v \in {clean_art(parts[i]) : i \in 1..Len(parts)} : is_valid_art(v)}

\* process_articul(articul, original_art): the returned list, as the set it
\* is built from (the list holds each member once, in no specified order)
process_articul(a, o) ==
    IF IsNa(a) THEN {}
    ELSE
      LET articul == clean_art(Upper(Strip(a)))
      IN  {v \in (IF articul # o THEN {articul} ELSE {})
                  \cup HyphenVariants(articul)
                  \cup SlashVariants(articul) : is_valid_art(v)}

----------------------------------------------------------------------------
(* Inputs of the text functions *)

TextAlphabet == {"a", "B", "-", "/", " ", "\t"}

StringsUpTo(A, n) == UNION {[1..k -> A] : k \in 0..n}

\* part numbers long enough to reach the truncation rule (line 33) and the
\* three-part split (line 44)
LongArts ==
    { <<"B","B","B","B","B","B","B","B","B","-","B","B">>,
      <<"B","B","B","B","-","B","B","B","B","-","B","B","B","B","-","B">>,
      <<"B","B","B","B","/","a","a","a","a"," ">> }

TextInputs == StringsUpTo(TextAlphabet, MaxLen) \cup LongArts \cup {NaN}

\* the values process_row (lines 105-125) and other callers pass as the
\* original: the normalized argument, the empty string, and the stems of the
\* normalized argument
Originals(a) ==
    IF IsNa(a) THEN {<<>>}
    ELSE {clean_art(a), <<>>} \cup
         {RSplitHead(clean_art(Upper(Strip(a))), "-")}

----------------------------------------------------------------------------
(* Specification of the text functions: an argument is drawn, then one of  *)
(* the functions is applied to it                                          *)

\* the finder before its construction, while another script is modelled
FinderIdle ==
    /\ cpc = "idle"
    /\ catalog_df = <<>>
    /\ entry = <<NaN, NaN, NaN>>
    /\ loaded = 0
    /\ article_dict = <<>>
    /\ analog_dict = <<>>
    /\ article = NaN
    /\ row = <<>>
    /\ found_vtracs = <<>>

\* no run while a single function is modelled
RunIdle ==
    /\ script = "none"
    /\ workers = 1
    /\ set_order = "idle"
    /\ faulty = <<3, 0>>
    /\ df0 = <<>>
    /\ df = <<>>
    /\ articul_to_vtrac = {}
    /\ rpc = "idle"
    /\ stage = 0
    /\ next_start = 0
    /\ tasks = <<>>
    /\ pending = <<>>
    /\ results = <<>>

\* the clusterer while another script is modelled
ClusterIdle ==
    /\ kpc = "idle"
    /\ vtrac_values = <<>>
    /\ common_vtrac = NaN

TextInit ==
    /\ art \in TextInputs
    /\ original_art = <<>>
    /\ op = "input"
    /\ cleaned = <<>>
    /\ valid = FALSE
    /\ variants = {}
    /\ nomenclature = NaN
    /\ articuls = <<>>
    /\ FinderIdle
    /\ ClusterIdle
    /\ RunIdle

CallCleanArt ==
    /\ op = "input"
    /\ ~IsNa(art)
    /\ cleaned' = clean_art(art)
    /\ op' = "clean_art"
    /\ UNCHANGED <<art, original_art, valid, variants, nomenclature, articuls,
                   nonTextVars>>

CallIsValidArt ==
    /\ op = "input"
    /\ ~IsNa(art)
    /\ valid' = is_valid_art(art)
    /\ op' = "is_valid_art"
    /\ UNCHANGED <<art, original_art, cleaned, variants, nomenclature, articuls,
                   nonTextVars>>

CallProcessArticul ==
    /\ op = "input"
    /\ \E o \in Originals(art) :
          /\ original_art' = o
          /\ variants' = process_articul(art, o)
    /\ op' = "process_articul"
    /\ UNCHANGED <<art, cleaned, valid, nomenclature, articuls, nonTextVars>>

TextNext == CallCleanArt \/ CallIsValidArt \/ CallProcessArticul

SpecText == TextInit /\ [][TextNext]_vars

----------------------------------------------------------------------------
(* Claims about the text functions *)

\* C1: the list returned by process_articul(a, o) never contains o, in
\* particular when o is the normalized form of a.
C1_OriginalExcluded ==
    op = "process_articul" => original_art \notin variants

\* C8: clean_art is idempotent: clean_art(clean_art(s)) = clean_art(s) for
\* every string s.
C8_CleanArtIdempotent ==
    op = "clean_art" => clean_art(cleaned) = cleaned

\* a call whose argument ends in a run of dashes, slashes and whitespace and
\* holds inner spaces and lower-case letters, all of which clean_art removed
C8_Witness ==
    /\ op = "clean_art"
    /\ Len(art) = 5
    /\ art[1] = " " /\ art[2] = "a" /\ art[3] = "-" /\ art[4] = " "
    /\ art[5] = "\t"
    /\ cleaned = <<"A">>

\* C9: is_valid_art returns true if and only if the string has at least 4
\* characters and contains no whitespace character of any kind.
C9_ValidIffNoWhitespace ==
    op = "is_valid_art" =>
        (valid <=> (Len(art) >= 4 /\ \A i \in 1..Len(art) : art[i] \notin Whitespace))

----------------------------------------------------------------------------
(* sort_artic_2.py : extract_from_nomenclature                             *)
(* A Cyrillic letter is one character, written "cy_a" (lower case) or      *)
(* "CY_A" (upper case).                                                    *)

\* the first index of s, from index from on, that holds a character of C;
\* 0 when there is none
IndexOf(s, C, from) ==
    LET hits == {i \in from..Len(s) : s[i] \in C}
    IN  IF hits = {} THEN 0 ELSE Min(hits)

\* line 81-82: re.findall(r'\(([^)]*?)\)', s)
RECURSIVE BracketGroups(_)
BracketGroups(s) ==
    LET open  == IndexOf(s, {"("}, 1)
        close == IF open = 0 THEN 0 ELSE IndexOf(s, {")"}, open + 1)
    IN  IF close = 0 THEN <<>>
        ELSE <<SubSeq(s, open + 1, close - 1)>>
             \o BracketGroups(SubSeq(s, close + 1, Len(s)))

\* line 84: re.split(r'[/;]', match)
RECURSIVE SplitAny(_, _)
SplitAny(s, C) ==
    LET i == IndexOf(s, C, 1)
    IN  IF i = 0 THEN <<s>>
        ELSE <<SubSeq(s, 1, i - 1)>> \o SplitAny(SubSeq(s, i + 1, Len(s)), C)

\* the class [A-Z0-9-]
ArtClass ==
    {"A", "B", "C", "D", "E", "F", "G", "H", "I", "J", "K", "L", "M", "N", "O",
     "P", "Q", "R", "S", "T", "U", "V", "W", "X", "Y", "Z", "0", "1", "2", "3",
     "4", "5", "6", "7", "8", "9", "-"}

\* line 89: re.search(r'([A-Z0-9-]+)', s), NaN when there is no match
FirstArtRun(s) ==
    LET i == IndexOf(s, ArtClass, 1)
        stop == {j \in i..Len(s) : s[j] \notin ArtClass}
    IN  IF i = 0 THEN NaN
        ELSE SubSeq(s, i, IF stop = {} THEN Len(s) ELSE Min(stop) - 1)

\* lines 85-93: the candidates of the parts of one bracket group, appended
RECURSIVE FromParts(_, _, _)
FromParts(parts, original, acc) ==
    IF parts = <<>> THEN acc
    ELSE
      LET cleaned_part == Strip(Head(parts))
          art_match    == FirstArtRun(cleaned_part)
          a            == clean_art(art_match)
      IN  FromParts(Tail(parts), original,
                    IF ~IsNa(art_match) /\ is_valid_art(a) /\ a # original
                    THEN Append(acc, a) ELSE acc)

\* lines 82-93: the loop over the bracket groups
RECURSIVE FromBrackets(_, _, _)
FromBrackets(groups, original, acc) ==
    IF groups = <<>> THEN acc
    ELSE FromBrackets(Tail(groups), original,
                      FromParts(SplitAny(Head(groups), {"/", ";"}), original, acc))

\* the text at index i reads 'арт' in either case
MarkerAt(s, i) ==
    /\ i + 2 <= Len(s)
    /\ UpperChar(s[i]) = "CY_A"
    /\ UpperChar(s[i + 1]) = "CY_R"
    /\ UpperChar(s[i + 2]) = "CY_T"

\* lines 96-97: re.findall(r'арт\.?\s*([^;$]*)', s, re.IGNORECASE)
RECURSIVE MarkerGroups(_)
MarkerGroups(s) ==
    LET starts == {i \in 1..Len(s) : MarkerAt(s, i)}
    IN  IF starts = {} THEN <<>>
        ELSE
          LET i      == Min(starts)
              dot    == IF i + 3 <= Len(s) /\ s[i + 3] = "." THEN i + 4 ELSE i + 3
              solid  == {j \in dot..Len(s) : s[j] \notin Whitespace}
              from   == IF solid = {} THEN Len(s) + 1 ELSE Min(solid)
              stop   == IndexOf(s, {";", "$"}, from)
              end    == IF stop = 0 THEN Len(s) + 1 ELSE stop
          IN  <<SubSeq(s, from, end - 1)>>
              \o MarkerGroups(SubSeq(s, end, Len(s)))

\* line 98: match.split('/')[0].split('(')[0].split(' ')[0]
MarkerHead(s) ==
    LET cut == IndexOf(s, {"/", "(", " "}, 1)
    IN  IF cut = 0 THEN s ELSE SubSeq(s, 1, cut - 1)

\* lines 97-100: the loop over the marker matches
RECURSIVE FromMarkers(_, _, _)
FromMarkers(groups, original, acc) ==
    IF groups = <<>> THEN acc
    ELSE
      LET c == clean_art(MarkerHead(Head(groups)))
      IN  FromMarkers(Tail(groups), original,
                      IF is_valid_art(c) /\ c # original
                      THEN Append(acc, c) ELSE acc)

\* lines 74-102
extract_from_nomenclature(nom, original) ==
    IF IsNa(nom) THEN <<>>
    ELSE
      LET text == Upper(nom)
      IN  FromMarkers(MarkerGroups(text), original,
                      FromBrackets(BracketGroups(text), original, <<>>))

----------------------------------------------------------------------------
(* Specification of the extractor: a text and an original are drawn, then  *)
(* extract_from_nomenclature is applied                                    *)

AB123 == <<"A", "B", "1", "2", "3">>
cd456 == <<"c", "d", "4", "5", "6">>
CD456 == <<"C", "D", "4", "5", "6">>
Nasos == <<"CY_N", "cy_a", "cy_s", "cy_o", "cy_s">>
Marker == <<"cy_a", "cy_r", "cy_t">>
BracketPair == <<"(">> \o AB123 \o <<"/">> \o CD456 \o <<")">>

\* the pieces a nomenclature text is made of: separators, part numbers, a
\* word, the marker, and whole bracket groups and marker phrases
Items ==
    { <<" ">>, <<";">>, <<"(">>, <<")">>, AB123, cd456, Nasos, Marker,
      BracketPair,
      <<"(">> \o cd456 \o <<" ", "x", ";">> \o AB123 \o <<"-", ")">>,
      Marker \o <<".">> \o AB123 \o <<"/">> \o cd456,
      Marker \o <<" ">> \o cd456 \o <<"(">> \o AB123 \o <<")">> }

\* how many pieces a text has at most
MaxItems == 3

RECURSIVE Concat(_)
Concat(q) == IF q = <<>> THEN <<>> ELSE Head(q) \o Concat(Tail(q))

Nomenclatures ==
    {NaN} \cup {Concat(q) : q \in UNION {[1..k -> Items] : k \in 0..MaxItems}}

\* line 108: the normalized part number of the row, '' when it has none
ExtractOriginals == {<<>>, AB123, CD456}

ExtractInit ==
    /\ art = NaN
    /\ original_art \in ExtractOriginals
    /\ op = "input"
    /\ cleaned = <<>>
    /\ valid = FALSE
    /\ variants = {}
    /\ nomenclature \in Nomenclatures
    /\ articuls = <<>>
    /\ FinderIdle
    /\ ClusterIdle
    /\ RunIdle

CallExtract ==
    /\ op = "input"
    /\ articuls' = extract_from_nomenclature(nomenclature, original_art)
    /\ op' = "extract_from_nomenclature"
    /\ UNCHANGED <<art, original_art, cleaned, valid, variants, nomenclature,
                   nonTextVars>>

ExtractNext == CallExtract

SpecExtract == ExtractInit /\ [][ExtractNext]_vars

\* C12: the list extract_from_nomenclature returns starts with the candidates
\* of the bracket groups, holds no value twice and does not hold the
\* original; the text 'Nasos (AB123/CD456)' with original '' gives
\* [AB123, CD456].
C12_DiscoveryOrderNoRepeat ==
    (op = "extract_from_nomenclature" /\ ~IsNa(nomenclature)) =>
        LET b == FromBrackets(BracketGroups(Upper(nomenclature)), original_art,
                              <<>>)
        IN  /\ Len(b) <= Len(articuls) /\ SubSeq(articuls, 1, Len(b)) = b
            /\ \A i, j \in 1..Len(articuls) :
                  articuls[i] = articuls[j] => i = j
            /\ \A i \in 1..Len(articuls) : articuls[i] # original_art
            /\ (nomenclature = Nasos \o <<" ">> \o BracketPair
                  /\ original_art = <<>>) => articuls = <<AB123, CD456>>

----------------------------------------------------------------------------
(* search_3.py : the catalog index and the matcher *)

\* Config.ADDITIONAL_ARTICLE_COLS: the part-number fields of a record
NumArticleCols == 6

Range(f) == {f[i] : i \in DOMAIN f}

\* d.get(k): the value stored under k, NaN (None) when there is none
DictGet(d, k) ==
    IF \E i \in 1..Len(d) : d[i][1] = k
    THEN d[CHOOSE i \in 1..Len(d) : d[i][1] = k][2]
    ELSE NaN

\* a store that keeps the value a key already has
DictSetDefault(d, k, v) ==
    IF \E i \in 1..Len(d) : d[i][1] = k THEN d ELSE Append(d, <<k, v>>)

\* d[k] = v: an existing key keeps its place, a new key is appended
DictSet(d, k, v) ==
    IF \E i \in 1..Len(d) : d[i][1] = k
    THEN [i \in 1..Len(d) |-> IF d[i][1] = k THEN <<k, v>> ELSE d[i]]
    ELSE Append(d, <<k, v>>)

\* lines 85-86, 89, 96-97: str(x).strip() if not pd.isna(x) else ""
CellText(x) == IF IsNa(x) THEN <<>> ELSE Strip(x)

NanText == <<"n", "a", "n">>

\* a usability test that forgets the 'nan' text
UsableNotEmpty(x) == x # <<>>

\* lines 91, 99: x and x not in ('', 'nan')
Usable(x) == x # <<>> /\ x \notin {<<>>, NanText}

\* lines 84-92: the primary mapping after one catalog row
LoadArticle(d, e) ==
    LET key_article == CellText(e[1])
        vtrac       == CellText(e[3])
    IN  IF Usable(key_article) /\ Usable(vtrac)
        THEN DictSet(d, key_article, vtrac) ELSE d

\* lines 95-100: the analog mapping after one catalog row
LoadAnalog(d, e) ==
    LET key_analog == CellText(e[2])
        vtrac      == CellText(e[3])
    IN  IF Usable(key_analog) /\ Usable(vtrac)
        THEN DictSet(d, key_analog, vtrac) ELSE d

\* lines 138, 144: v and pd.notna(v) and v.strip() != ''
NonBlank(v) == v # <<>> /\ ~IsNa(v) /\ Strip(v) # <<>>

\* lines 137-147: the exact matches, primary mapping first
ExactMatches(adict, ndict, key) ==
    LET exact_vtrac_article == DictGet(adict, key)
        exact_vtrac_analog  == DictGet(ndict, key)
        first == IF NonBlank(exact_vtrac_article)
                 THEN <<exact_vtrac_article>> ELSE <<>>
    IN  IF NonBlank(exact_vtrac_analog) /\ exact_vtrac_analog \notin Range(first)
        THEN Append(first, exact_vtrac_analog) ELSE first

\* a scan that accepts only the keys equal to the article
RECURSIVE EqualScan(_, _, _)
EqualScan(d, key, found) ==
    IF Len(d) = 0 THEN found
    ELSE EqualScan(Tail(d), key,
            IF Strip(d[1][1]) = key /\ Strip(d[1][2]) \notin Range(found)
            THEN Append(found, Strip(d[1][2])) ELSE found)

\* lines 151-162 and 165-176: one scan of a mapping for the keys that start
\* with the article, appending the identifiers not yet found
RECURSIVE PrefixScan(_, _, _)
PrefixScan(d, key, found) ==
    IF Len(d) = 0 THEN found
    ELSE
      LET catalog_key == d[1][1]
          vtrac       == d[1][2]
          skip == catalog_key = <<>> \/ IsNa(catalog_key) \/
                  vtrac = <<>> \/ IsNa(vtrac)
          hit  == /\ ~skip
                  /\ StartsWith(Strip(catalog_key), key)
                  /\ Strip(vtrac) \notin Range(found)
                  /\ Strip(vtrac) # <<>>
      IN  PrefixScan(Tail(d), key,
                     IF hit THEN Append(found, Strip(vtrac)) ELSE found)

\* find_vtrac(article) over the two mappings
find_vtrac(adict, ndict, a) ==
    IF a = <<>> \/ IsNa(a) \/ Strip(a) = <<>> THEN <<>>
    ELSE
      LET key == Strip(a)
      IN  PrefixScan(ndict, key,
            PrefixScan(adict, key, ExactMatches(adict, ndict, key)))

\* a merge that appends every identifier of col_vtracs
AddAll(found, col_vtracs) == found \o col_vtracs

\* lines 220-222: the identifiers of col_vtracs not yet in found are appended
RECURSIVE AddUnique(_, _)
AddUnique(found, col_vtracs) ==
    IF Len(col_vtracs) = 0 THEN found
    ELSE AddUnique(IF col_vtracs[1] # <<>> /\ col_vtracs[1] \notin Range(found)
                   THEN Append(found, col_vtracs[1]) ELSE found,
                   Tail(col_vtracs))

\* lines 202-222: the loop of process_row from field col on
RECURSIVE ProcessCols(_, _, _, _, _)
ProcessCols(adict, ndict, r, col, found) ==
    IF col > NumArticleCols THEN found
    ELSE
      LET a == r[col]
      IN  ProcessCols(adict, ndict, r, col + 1,
            IF IsNa(a) \/ Strip(a) = <<>> THEN found
            ELSE AddUnique(found, find_vtrac(adict, ndict, Strip(a))))

\* process_row(row)
process_row(adict, ndict, r) == ProcessCols(adict, ndict, r, 1, <<>>)

----------------------------------------------------------------------------
(* Inputs of the finder *)

AB100  == <<"A", "B", "-", "1", "0", "0">>
ab100  == <<"a", "b", "-", "1", "0", "0">>
AB100X == <<"A", "B", "-", "1", "0", "0", "-", "X">>
V1     == <<"V", "1">>
V2     == <<"V", "2">>
Padded(s) == <<" ">> \o s \o <<" ">>

\* the cells of the catalog's three columns: missing, blank, 'nan', padded
\* and plain values
PartCells   == {NaN, <<" ">>, Padded(NanText), AB100, Padded(AB100X)}
AnalogCells == {NaN, ab100, AB100X}
VtracCells  == {NaN, <<" ", "\t">>, NanText, V1, Padded(V2)}

CatalogRows == PartCells \X AnalogCells \X VtracCells

\* the arguments find_vtrac is called with
Articles == {NaN, <<>>, <<" ">>, AB100, ab100, Padded(AB100), <<"A", "B">>,
             AB100X}

Record(c1, c2, c3) == <<c1, c2, c3, NaN, NaN, NaN>>

\* the records process_row is called with
Records ==
    {Record(c1, c2, c3) : c1 \in {NaN, ab100, AB100},
                          c2 \in {NaN, <<" ">>, Padded(AB100X)},
                          c3 \in {NaN, <<"A", "B">>}}

----------------------------------------------------------------------------
(* Specification of the finder: load_catalog iterates the catalog rows,    *)
(* then find_vtrac and process_row are called on the index                  *)

TextIdle ==
    /\ art = NaN
    /\ original_art = <<>>
    /\ op = "idle"
    /\ cleaned = <<>>
    /\ valid = FALSE
    /\ variants = {}
    /\ nomenclature = NaN
    /\ articuls = <<>>

FinderInit ==
    /\ TextIdle
    /\ ClusterIdle
    /\ RunIdle
    /\ cpc = "loading"
    /\ catalog_df = <<>>
    /\ entry = <<NaN, NaN, NaN>>
    /\ loaded = 0
    /\ article_dict = <<>>
    /\ analog_dict = <<>>
    /\ article = NaN
    /\ row = <<>>
    /\ found_vtracs = <<>>

\* one iteration of the loop of load_catalog (lines 82-100)
LoadRow ==
    /\ cpc = "loading"
    /\ loaded < MaxCatalog
    /\ \E e \in CatalogRows :
          /\ catalog_df' = Append(catalog_df, e)
          /\ entry' = e
          /\ article_dict' = LoadArticle(article_dict, e)
          /\ analog_dict' = LoadAnalog(analog_dict, e)
    /\ loaded' = loaded + 1
    /\ UNCHANGED <<cpc, article, row, found_vtracs, nonFinderVars>>

\* the loop ends: the catalog has no more rows; load_catalog returns and its
\* local catalog_df is gone
LoadDone ==
    /\ cpc = "loading"
    /\ cpc' = "ready"
    /\ catalog_df' = <<>>
    /\ UNCHANGED <<entry, loaded, article_dict, analog_dict, article, row,
                   found_vtracs, nonFinderVars>>

CallFindVtrac ==
    /\ cpc = "ready"
    /\ \E a \in Articles :
          /\ article' = a
          /\ found_vtracs' = find_vtrac(article_dict, analog_dict, a)
    /\ cpc' = "find_vtrac"
    /\ UNCHANGED <<catalog_df, entry, loaded, article_dict, analog_dict, row,
                   nonFinderVars>>

CallProcessRow ==
    /\ cpc = "ready"
    /\ \E r \in Records :
          /\ row' = r
          /\ found_vtracs' = process_row(article_dict, analog_dict, r)
    /\ cpc' = "process_row"
    /\ UNCHANGED <<catalog_df, entry, loaded, article_dict, analog_dict,
                   article, nonFinderVars>>

FinderNext == LoadRow \/ LoadDone \/ CallFindVtrac \/ CallProcessRow

SpecFinder == FinderInit /\ [][FinderNext]_vars

\* the entries of both mappings
DictEntries == Range(article_dict) \cup Range(analog_dict)

----------------------------------------------------------------------------
(* Claims about the finder *)

\* the part-number fields of the record that process_row does not skip
SearchedFields == {c \in 1..NumArticleCols : ~IsNa(row[c]) /\ Strip(row[c]) # <<>>}

\* C2: the matcher looks up the trimmed and upper-cased value of each
\* part-number field: the identifier stored under that value is in the list
\* process_row returns, and for the catalog entry (AB-100, blank, V1) and the
\* record field ab-100 the list is [V1].
C2_LooksUpNormalizedField ==
    cpc = "process_row" =>
        /\ \A c \in SearchedFields : \A e \in DictEntries :
              e[1] = Upper(Strip(row[c])) => e[2] \in Range(found_vtracs)
        /\ (/\ article_dict = <<<<AB100, V1>>>>
            /\ analog_dict = <<>>
            /\ row = Record(ab100, NaN, NaN)) => found_vtracs = <<V1>>

\* C3 as stated: for every non-blank key k, find_vtrac(k) returns exactly the
\* identifiers stored under the catalog keys that start with k.
C3_PrefixOfGivenKey ==
    (cpc = "find_vtrac" /\ ~IsNa(article) /\ Strip(article) # <<>>) =>
        Range(found_vtracs) = {e[2] : e \in {d \in DictEntries : StartsWith(d[1], article)}}

\* C3, amended: for every non-blank key k, find_vtrac(k) returns exactly the
\* identifiers stored under the catalog keys that start with k trimmed of its
\* leading and trailing whitespace.
C3_PrefixOfTrimmedKey ==
    (cpc = "find_vtrac" /\ ~IsNa(article) /\ Strip(article) # <<>>) =>
        Range(found_vtracs) =
            {e[2] : e \in {d \in DictEntries : StartsWith(d[1], Strip(article))}}

\* find_vtrac("AB-100") finds V2 stored under "AB-100-X" and nothing stored
\* under a key that does not start with "AB-100"
C3_Witness ==
    /\ cpc = "find_vtrac"
    /\ article = AB100
    /\ <<AB100X, V2>> \in Range(article_dict)
    /\ <<ab100, V1>> \in Range(analog_dict)
    /\ found_vtracs = <<V2>>

\* the cell is missing, blank or the text 'nan' once trimmed
Unusable(x) == IsNa(x) \/ Strip(x) = <<>> \/ Strip(x) = NanText

CleanText(x) == ~IsNa(x) /\ x # <<>> /\ x # NanText /\ Strip(x) = x

\* C10: every key and value of both mappings is a trimmed, non-empty string
\* other than 'nan', and a catalog row whose part number (resp. analog part
\* number) or identifier is missing, blank or 'nan' adds nothing to the
\* primary (resp. analog) mapping.
C10_IndexHoldsCleanText ==
    [][ /\ \A e \in Range(article_dict') \cup Range(analog_dict') :
              CleanText(e[1]) /\ CleanText(e[2])
        /\ loaded' = loaded + 1 =>
              /\ (Unusable(entry'[1]) \/ Unusable(entry'[3])) =>
                    article_dict' = article_dict
              /\ (Unusable(entry'[2]) \/ Unusable(entry'[3])) =>
                    analog_dict' = analog_dict ]_vars

\* load_catalog has stored a padded key and a padded identifier trimmed, and
\* has then iterated a row whose part number is 'nan' and whose analog is
\* usable
C10_Witness ==
    /\ cpc = "loading"
    /\ loaded = 2
    /\ entry = <<Padded(NanText), ab100, Padded(V2)>>
    /\ article_dict = <<<<AB100X, V2>>>>
    /\ analog_dict = <<<<ab100, V2>>>>

\* lines 82-100 run over a whole catalog: the two mappings of a fresh finder
RECURSIVE load_catalog(_, _, _)
load_catalog(rows, adict, ndict) ==
    IF rows = <<>> THEN <<adict, ndict>>
    ELSE load_catalog(Tail(rows), LoadArticle(adict, Head(rows)),
                      LoadAnalog(ndict, Head(rows)))

\* the rows iterated so far whose part number (col = 1) or analog part number
\* (col = 2) is k once trimmed and whose identifier is not blank
Writers(col, k) ==
    {i \in 1..Len(catalog_df) :
        /\ ~IsNa(catalog_df[i][col])
        /\ Strip(catalog_df[i][col]) = k
        /\ ~Unusable(catalog_df[i][3])}

\* the trimmed keys the rows iterated so far give to column col
WrittenKeys(col) ==
    {Strip(catalog_df[i][col]) :
        i \in {j \in 1..Len(catalog_df) :
                  ~Unusable(catalog_df[j][col]) /\ ~Unusable(catalog_df[j][3])}}

LastWriteWins(d, col) ==
    /\ \A i, j \in 1..Len(d) : d[i][1] = d[j][1] => i = j
    /\ {d[i][1] : i \in 1..Len(d)} = WrittenKeys(col)
    /\ \A i \in 1..Len(d) :
          d[i][2] = Strip(catalog_df[Max(Writers(col, d[i][1]))][3])

\* C11: while load_catalog iterates the catalog, each mapping holds exactly
\* the trimmed keys of the rows read so far that have a usable key and a
\* non-blank identifier, each key once, and under each key the trimmed
\* identifier of the last such row; and the mappings are those a second
\* build from the same rows gives.
C11_LastWriteWins ==
    cpc = "loading" =>
        /\ LastWriteWins(article_dict, 1)
        /\ LastWriteWins(analog_dict, 2)
        /\ <<article_dict, analog_dict>> = load_catalog(catalog_df, <<>>, <<>>)

\* two rows with the same part number and different identifiers, the second
\* padded: the later identifier has replaced the earlier one
C11_Witness ==
    /\ cpc = "loading"
    /\ catalog_df = <<<<AB100, NaN, V1>>, <<AB100, ab100, Padded(V2)>>>>
    /\ article_dict = <<<<AB100, V2>>>>
    /\ analog_dict = <<<<ab100, V2>>>>

\* the part-number fields of the record that are not blank
FilledFields == {c \in 1..NumArticleCols : ~IsNa(row[c]) /\ Strip(row[c]) # <<>>}

\* the identifiers the catalog gives to field c: the values stored under the
\* keys that start with the trimmed field
FieldVtracs(c) ==
    {e[2] : e \in {x \in DictEntries : StartsWith(x[1], Strip(row[c]))}}

\* the identifiers stored under the key equal to the trimmed field
FieldExact(c) ==
    {e[2] : e \in {x \in DictEntries : x[1] = Strip(row[c])}}

\* the first filled field that gives identifier v
FirstField(v) == Min({c \in FilledFields : v \in FieldVtracs(c)})

\* C13: the list process_row returns holds exactly the identifiers the
\* catalog gives to the record's non-blank fields, each once; an identifier
\* first found through an earlier field precedes one first found through a
\* later field, and among those first found through the same field the exact
\* matches precede the prefix matches; with no non-blank field the list is
\* empty.
C13_FirstSeenFieldMajor ==
    cpc = "process_row" =>
        /\ \A i, j \in 1..Len(found_vtracs) :
              found_vtracs[i] = found_vtracs[j] => i = j
        /\ Range(found_vtracs) = UNION {FieldVtracs(c) : c \in FilledFields}
        /\ \A i, j \in 1..Len(found_vtracs) :
              i < j =>
                LET ci == FirstField(found_vtracs[i])
                    cj == FirstField(found_vtracs[j])
                IN  /\ ci <= cj
                    /\ (ci = cj /\ found_vtracs[j] \in FieldExact(ci)) =>
                          found_vtracs[i] \in FieldExact(ci)
        /\ FilledFields = {} => found_vtracs = <<>>

\* the second field's exact match precedes the identifier that only the
\* third field's prefix match adds, against the order of the mapping
C13_Witness ==
    /\ cpc = "process_row"
    /\ article_dict = <<<<AB100, V1>>, <<AB100X, V2>>>>
    /\ analog_dict = <<>>
    /\ row = Record(NaN, Padded(AB100X), <<"A", "B">>)
    /\ found_vtracs = <<V2, V1>>

----------------------------------------------------------------------------
(* end_4.py : find_common_vtrac *)

\* line 143: max_prefix_length
MaxPrefixLength == 8

\* CONFIG["MIN_PREFIX_LENGTH"]
MinPrefixLength == 6

\* line 138: the slots that are not missing, as strings
StrValues(vals) == SelectSeq(vals, LAMBDA v : ~IsNa(v))

\* lines 147-151: the keys of prefix_groups in insertion order
RECURSIVE PrefixKeys(_, _, _)
PrefixKeys(strs, L, keys) ==
    IF Len(strs) = 0 THEN keys
    ELSE PrefixKeys(Tail(strs), L,
            IF Len(strs[1]) >= L /\ Take(strs[1], L) \notin Range(keys)
            THEN Append(keys, Take(strs[1], L)) ELSE keys)

\* prefix_groups[p]
Group(strs, L, p) ==
    SelectSeq(strs, LAMBDA x : Len(x) >= L /\ Take(x, L) = p)

\* line 154: max(prefix_groups.values(), key=len, default=[]): the first of
\* the longest groups in insertion order
LargestGroup(strs, L) ==
    LET keys == PrefixKeys(strs, L, <<>>)
        size(i) == Len(Group(strs, L, keys[i]))
    IN  IF Len(keys) = 0 THEN <<>>
        ELSE Group(strs, L,
                   keys[CHOOSE i \in 1..Len(keys) :
                           /\ \A j \in 1..Len(keys) : size(j) <= size(i)
                           /\ \A j \in 1..(i - 1) : size(j) < size(i)])

\* a test that accepts a group of one
GroupOfOneFound(g) == Len(g) >= 1

\* line 157: len(largest_group) > 1
GroupFound(g) == Len(g) > 1

\* lines 146-162: the loop from prefix_length down to the minimum
RECURSIVE CommonFrom(_, _)
CommonFrom(strs, prefix_length) ==
    IF prefix_length < MinPrefixLength THEN NaN
    ELSE LET largest_group == LargestGroup(strs, prefix_length)
         IN  IF GroupFound(largest_group)
             THEN Take(largest_group[1], prefix_length)
             ELSE CommonFrom(strs, prefix_length - 1)

\* a return that forgets the single value
FewerThanTwoNone(str_values) == NaN

\* line 140: return str_values[0] if str_values else None
FewerThanTwo(str_values) ==
    IF Len(str_values) > 0 THEN str_values[1] ELSE NaN

\* find_common_vtrac(vtrac_values)
find_common_vtrac(vals) ==
    IF Len(vals) = 0 \/ \A i \in 1..Len(vals) : IsNa(vals[i]) THEN NaN
    ELSE LET str_values == StrValues(vals)
         IN  IF Len(str_values) < 2 THEN FewerThanTwo(str_values)
             ELSE CommonFrom(str_values, MaxPrefixLength)

----------------------------------------------------------------------------
(* Inputs of find_common_vtrac: missing slots and catalog identifiers, which *)
(* the catalog index holds trimmed and non-empty                             *)

AB1234     == <<"A", "B", "1", "2", "3", "4">>
AB123456   == AB1234 \o <<"5", "6">>
AB123457   == AB1234 \o <<"5", "7">>
AB12345678 == AB123456 \o <<"7", "8">>
AB1299     == <<"A", "B", "1", "2", "9", "9">>
ZZ000000   == <<"Z", "Z", "0", "0", "0", "0", "0", "0">>
ZZ000001   == <<"Z", "Z", "0", "0", "0", "0", "0", "1">>
IdX        == <<"X">>

Identifiers == {AB1234, AB123456, AB123457, AB12345678, AB1299, ZZ000000,
                ZZ000001, IdX}

IdentifierLists == UNION {[1..n -> Identifiers \cup {NaN}] : n \in 0..MaxIds}

----------------------------------------------------------------------------
(* Specification of the clusterer: a list of slots is drawn and              *)
(* find_common_vtrac is applied to it                                        *)

ClusterInit ==
    /\ TextIdle
    /\ FinderIdle
    /\ RunIdle
    /\ kpc = "input"
    /\ vtrac_values \in IdentifierLists
    /\ common_vtrac = NaN

CallFindCommonVtrac ==
    /\ kpc = "input"
    /\ common_vtrac' = find_common_vtrac(vtrac_values)
    /\ kpc' = "find_common_vtrac"
    /\ UNCHANGED <<vtrac_values, nonClusterVars>>

ClusterNext == CallFindCommonVtrac

SpecCluster == ClusterInit /\ [][ClusterNext]_vars

----------------------------------------------------------------------------
(* Claims about find_common_vtrac *)

\* the positions of the slots that hold an identifier
Present == {i \in 1..Len(vtrac_values) : ~IsNa(vtrac_values[i])}

\* the slots at least L long that start with p
Sharing(L, p) ==
    {i \in Present : Len(vtrac_values[i]) >= L /\ Take(vtrac_values[i], L) = p}

\* the prefix lengths at which two slots share their prefix
SharedLengths ==
    {L \in MinPrefixLength..MaxPrefixLength :
        \E i, j \in Present : i # j /\ j \in Sharing(L, Take(vtrac_values[i], L))}

\* C4: with at least two non-blank identifiers, find_common_vtrac returns
\* the prefix shared by the largest group at the longest length of 8, 7, 6 at
\* which two identifiers at least that long share their prefix, and None when
\* there is no such length; a returned consensus is 6 to 8 characters long
\* and a prefix of at least two identifiers.
C4_LongestSharedPrefix ==
    (kpc = "find_common_vtrac" /\ Cardinality(Present) >= 2) =>
        IF SharedLengths = {} THEN IsNa(common_vtrac)
        ELSE LET L == Max(SharedLengths)
             IN  /\ ~IsNa(common_vtrac)
                 /\ Len(common_vtrac) = L
                 /\ Len(common_vtrac) \in 6..8
                 /\ Cardinality(Sharing(L, common_vtrac)) >= 2
                 /\ \A i \in Present :
                       Cardinality(Sharing(L, Take(vtrac_values[i], L)))
                           <= Cardinality(Sharing(L, common_vtrac))

\* ["AB123456", "AB123457"] yields "AB12345"
C4_Witness ==
    /\ kpc = "find_common_vtrac"
    /\ vtrac_values = <<AB123456, AB123457>>
    /\ common_vtrac = Take(AB123456, 7)

----------------------------------------------------------------------------
(* The two parallel runs: search_3.py process_dataframe (stage 0, one task  *)
(* per row) and end_4.py process (stage 1 propagation, stage 2 consensus,   *)
(* one task per row range).  A table row is a record: art, the six          *)
(* part-number fields (the primary one, then additional 1 to 5); vtrac, the *)
(* five identifier slots; common, the consensus column.                     *)

\* Config.MAX_VTRAC_COLUMNS, len(CONFIG["VTRAC_COLS"])
NumVtracCols == 5

NoFault == <<3, 0>>

AllMissing(n) == [i \in 1..n |-> NaN]

\* a chunk size without the lower limit of 1
ChunkSizeFloor(scr, n, w) == IF scr = "search_3" THEN 1 ELSE n \div w

\* max(1, len(self.df) // CONFIG["WORKERS"]); process_dataframe submits one
\* task per row
ChunkSizeOf(scr, n, w) == IF scr = "search_3" \/ n \div w < 1 THEN 1 ELSE n \div w

ChunkSize == ChunkSizeOf(script, Len(df), workers)

\* the identifiers of the run, in one iteration order of a set of them
IdOrder == <<AB123456, AB123457, ZZ000000>>

Reverse(q) == [i \in 1..Len(q) |-> q[Len(q) + 1 - i]]

\* list(found_vtracs): the members of a set in the run's iteration order
SetToList(S) ==
    SelectSeq(IF set_order = "backward" THEN Reverse(IdOrder) ELSE IdOrder,
              LAMBDA v : v \in S)

\* end_4 lines 79-80, 105-107: the additional part numbers of a row
ArticulsOf(r) == {r.art[c] : c \in 2..NumArticleCols} \ {NaN}

\* end_4 line 81: the identifiers of a row
VtracsOf(r) == {r.vtrac[c] : c \in 1..NumVtracCols} \ {NaN}

\* end_4 lines 76, 101: .notna().any()
HasVtrac(r) == \E c \in 1..NumVtracCols : ~IsNa(r.vtrac[c])

\* prepare_articul_mapping: every additional part number of a row with an
\* identifier maps to all identifiers of that row
ArticulMapping(d) ==
    UNION {ArticulsOf(d[i]) \X VtracsOf(d[i]) : i \in {k \in 1..Len(d) : HasVtrac(d[k])}}

\* a mapping recomputed from the table as it is when the task reads it
LiveMapping == ArticulMapping(df)

\* self.articul_to_vtrac as a task reads it (lines 112-113)
TaskMapping == articul_to_vtrac

\* the catalog index the search_3 run was constructed with
RunArticleDict == <<<<AB100, AB123456>>, <<AB100X, AB123457>>>>
RunAnalogDict  == <<<<ab100, ZZ000000>>>>

\* a test that skips no row
SkipsNone(r) == FALSE

\* line 101: a row that has an identifier is skipped
Skips(r) == HasVtrac(r)

\* process_vtrac_matching, lines 100-118: what one row adds to results
MatchingResult(idx) ==
    LET r == df[idx + 1]
        found == {m[2] : m \in {x \in TaskMapping : x[1] \in ArticulsOf(r)}}
    IN  IF Skips(r) \/ found = {} THEN <<>>
        ELSE <<<<idx, SetToList(found)>>>>

\* process_common_vtrac, lines 175-181: what one row adds to results
CommonResult(idx) ==
    LET common == find_common_vtrac(df[idx + 1].vtrac)
    IN  IF IsNa(common) \/ common = <<>> THEN <<>> ELSE <<<<idx, common>>>>

\* search_3 process_row on the row of the task
SearchResult(idx) ==
    <<<<idx, process_row(RunArticleDict, RunAnalogDict, df[idx + 1].art)>>>>

RowResult(idx) ==
    CASE stage = 0 -> SearchResult(idx)
      [] stage = 1 -> MatchingResult(idx)
      [] OTHER     -> CommonResult(idx)

\* apply_vtrac_matches lines 127-128: the first slots are overwritten
WriteVtracs(r, vtracs) ==
    [r EXCEPT !.vtrac = [c \in 1..NumVtracCols |->
                            IF c <= Len(vtracs) THEN vtracs[c] ELSE r.vtrac[c]]]

\* apply_common_vtrac line 189
WriteCommon(r, v) == [r EXCEPT !.common = v]

\* search_3 lines 322-328: r[i] if r and i < len(r) else None
ColumnsOf(r, res) ==
    [r EXCEPT !.vtrac = [c \in 1..NumVtracCols |->
                            IF ~IsNa(res) /\ c <= Len(res) THEN res[c] ELSE NaN]]

\* an except clause that lets the exception escape
Reraise(p) == "aborted"

\* end_4 lines 212-213, search_3 lines 300-302: the exception of a task is
\* logged and the loop over the completed futures goes on
AfterTaskError(p) == p

----------------------------------------------------------------------------
(* Inputs of the runs *)

\* the pool sizes tried; CONFIG["WORKERS"] and Config.MAX_WORKERS are 10
WorkerCounts == {1, 2}

BlankRow(fields) ==
    [art |-> fields, vtrac |-> AllMissing(NumVtracCols), common |-> NaN]

\* rows of tabl_out: the identifier columns do not exist yet
SearchRows ==
    { BlankRow(Record(AB100, NaN, NaN)),
      BlankRow(Record(NaN, ab100, NaN)),
      BlankRow(Record(NaN, <<"A", "B">>, <<" ">>)),
      BlankRow(Record(NaN, NaN, NaN)) }

Slots(v1, v2) == <<v1, v2, NaN, NaN, NaN>>

\* rows of all_out: additional part numbers and the identifiers found
ProcRows ==
    { [art |-> Record(NaN, AB100, NaN),    vtrac |-> Slots(AB123456, AB123457), common |-> NaN],
      [art |-> Record(NaN, AB100, AB100X), vtrac |-> Slots(NaN, NaN),           common |-> NaN],
      [art |-> Record(NaN, AB100X, NaN),   vtrac |-> Slots(NaN, NaN),           common |-> NaN],
      [art |-> Record(NaN, AB100X, NaN),   vtrac |-> Slots(NaN, ZZ000000),      common |-> NaN] }

Tables(rows) == UNION {[1..n -> rows] : n \in 0..MaxRows}

\* the tasks that may raise: none, or the one task of a stage that starts at
\* a given row
Faults(scr, n, w) ==
    {NoFault} \cup
    {<<st, i>> : st \in (IF scr = "search_3" THEN {0} ELSE {1, 2}),
                 i \in {k \in 0..(n - 1) : k % ChunkSizeOf(scr, n, w) = 0}}

----------------------------------------------------------------------------
(* Specification of the runs *)

RunInit ==
    /\ TextIdle
    /\ FinderIdle
    /\ ClusterIdle
    /\ script \in {"search_3", "end_4"}
    /\ workers \in WorkerCounts
    /\ set_order \in (IF script = "search_3" THEN {"forward"}
                      ELSE {"forward", "backward"})
    /\ df0 \in Tables(IF script = "search_3" THEN SearchRows ELSE ProcRows)
    /\ df = df0
    /\ faulty \in Faults(script, Len(df0), workers)
    /\ articul_to_vtrac = {}
    /\ rpc = IF script = "search_3" THEN "submit" ELSE "prepare"
    /\ stage = IF script = "search_3" THEN 0 ELSE 1
    /\ next_start = 0
    /\ tasks = <<>>
    /\ pending = <<>>
    /\ results = <<>>

\* The guard of every step is a named predicate, so that the states in which
\* the run can go on can be stated (RunCanStep).

\* the tasks a free worker thread may take: the oldest queued one
Startable ==
    {t \in 1..Len(tasks) :
        /\ tasks[t].st = "queued"
        /\ \A u \in 1..(t - 1) : tasks[u].st # "queued"
        /\ Cardinality({u \in 1..Len(tasks) : tasks[u].st = "running"}) < workers}

\* the tasks a worker thread is executing
Running == {t \in 1..Len(tasks) : tasks[t].st = "running"}

\* the futures as_completed may yield next
Finished == {t \in 1..Len(tasks) : tasks[t].st \in {"done", "failed"}}

\* a pool that is left while futures are still queued or running
EarlyStageDone == rpc = "collect"

CanPrepare    == rpc = "prepare"
CanSubmitTask == rpc = "submit" /\ next_start < Len(df)
CanSubmitDone == rpc = "submit" /\ next_start >= Len(df)
CanStartTask  == Startable # {}
CanTaskStep   == Running # {}
CanCollect    == rpc = "collect" /\ Finished # {}
CanApplyRow   == rpc = "apply"
CanStageDone  == rpc = "collect" /\ \A t \in 1..Len(tasks) : tasks[t].st = "collected"
CanAddColumns == rpc = "columns"
CanSave       == rpc = "save"

RunCanStep ==
    \/ CanPrepare \/ CanSubmitTask \/ CanSubmitDone \/ CanStartTask
    \/ CanTaskStep \/ CanCollect \/ CanApplyRow \/ CanStageDone
    \/ CanAddColumns \/ CanSave

\* end_4 process, step 2: prepare_articul_mapping
Prepare ==
    /\ CanPrepare
    /\ articul_to_vtrac' = ArticulMapping(df)
    /\ rpc' = "submit"
    /\ UNCHANGED <<script, workers, set_order, faulty, df0, df, stage,
                   next_start, tasks, pending, results, nonRunVars>>

\* one iteration of the submission loop (end_4 lines 199-202, search_3
\* lines 279-282)
SubmitTask ==
    /\ CanSubmitTask
    /\ tasks' = Append(tasks,
                  [start |-> next_start,
                   end   |-> IF next_start + ChunkSize < Len(df)
                             THEN next_start + ChunkSize ELSE Len(df),
                   st    |-> "queued",
                   idx   |-> next_start,
                   res   |-> <<>>])
    /\ next_start' = next_start + ChunkSize
    /\ UNCHANGED <<script, workers, set_order, faulty, df0, df,
                   articul_to_vtrac, rpc, stage, pending, results, nonRunVars>>

\* the submission loop ends; search_3 line 285 creates the results list
SubmitDone ==
    /\ CanSubmitDone
    /\ rpc' = "collect"
    /\ results' = IF stage = 0 THEN AllMissing(Len(df)) ELSE results
    /\ UNCHANGED <<script, workers, set_order, faulty, df0, df,
                   articul_to_vtrac, stage, next_start, tasks, pending,
                   nonRunVars>>

\* a free worker thread takes the oldest queued task
StartTask ==
    /\ CanStartTask
    /\ \E t \in Startable : tasks' = [tasks EXCEPT ![t].st = "running"]
    /\ UNCHANGED <<script, workers, set_order, faulty, df0, df,
                   articul_to_vtrac, rpc, stage, next_start, pending, results,
                   nonRunVars>>

\* task t after its next step: it raises, returns, or has processed the next
\* row of its range (end_4 lines 96-98, 171-173)
TaskAfterStep(t) ==
    IF <<stage, t.start>> = faulty
    THEN [t EXCEPT !.st = "failed"]
    ELSE IF t.idx >= t.end \/ t.idx >= Len(df)
    THEN [t EXCEPT !.st = "done"]
    ELSE [t EXCEPT !.res = @ \o RowResult(t.idx), !.idx = @ + 1]

\* a worker thread takes a step of its task
TaskStep ==
    /\ CanTaskStep
    /\ \E t \in Running : tasks' = [tasks EXCEPT ![t] = TaskAfterStep(@)]
    /\ UNCHANGED <<script, workers, set_order, faulty, df0, df,
                   articul_to_vtrac, rpc, stage, next_start, pending, results,
                   nonRunVars>>

\* as_completed yields a finished future: future.result() and what follows
\* it (end_4 lines 207-213, search_3 lines 288-302)
Collect ==
    /\ CanCollect
    /\ \E t \in Finished :
          /\ tasks' = [tasks EXCEPT ![t].st = "collected"]
          /\ IF tasks[t].st = "failed"
             THEN /\ rpc' = AfterTaskError(rpc)
                  /\ pending' = pending
                  /\ results' = IF stage = 0
                                THEN [results EXCEPT ![tasks[t].start + 1] = <<>>]
                                ELSE results
             ELSE IF stage = 0
             THEN /\ rpc' = rpc
                  /\ pending' = pending
                  /\ results' = [results EXCEPT ![tasks[t].start + 1] = tasks[t].res[1][2]]
             ELSE /\ rpc' = IF tasks[t].res # <<>> THEN "apply" ELSE rpc
                  /\ pending' = tasks[t].res
                  /\ results' = results
    /\ UNCHANGED <<script, workers, set_order, faulty, df0, df,
                   articul_to_vtrac, stage, next_start, nonRunVars>>

\* apply_vtrac_matches / apply_common_vtrac: the loop writes one row
ApplyRow ==
    /\ CanApplyRow
    /\ LET idx == pending[1][1]
           val == pending[1][2]
       IN  df' = [df EXCEPT ![idx + 1] =
                     IF stage = 1 THEN WriteVtracs(@, val) ELSE WriteCommon(@, val)]
    /\ pending' = Tail(pending)
    /\ rpc' = IF Len(pending) = 1 THEN "collect" ELSE "apply"
    /\ UNCHANGED <<script, workers, set_order, faulty, df0, articul_to_vtrac,
                   stage, next_start, tasks, results, nonRunVars>>

\* every future has been yielded: the pool is left, and the next step of
\* the script begins
StageDone ==
    /\ CanStageDone
    /\ rpc' = CASE stage = 0 -> "columns"
                [] stage = 1 -> "submit"
                [] OTHER     -> "save"
    /\ stage' = IF stage = 1 THEN 2 ELSE stage
    /\ tasks' = <<>>
    /\ next_start' = 0
    /\ UNCHANGED <<script, workers, set_order, faulty, df0, df,
                   articul_to_vtrac, pending, results, nonRunVars>>

\* search_3 lines 322-328: the identifier columns are filled from results
AddColumns ==
    /\ CanAddColumns
    /\ df' = [i \in 1..Len(df) |-> ColumnsOf(df[i], results[i])]
    /\ rpc' = "save"
    /\ UNCHANGED <<script, workers, set_order, faulty, df0, articul_to_vtrac,
                   stage, next_start, tasks, pending, results, nonRunVars>>

\* the table is written out (end_4 save_data, search_3 run line 372)
Save ==
    /\ CanSave
    /\ rpc' = "saved"
    /\ UNCHANGED <<script, workers, set_order, faulty, df0, df,
                   articul_to_vtrac, stage, next_start, tasks, pending,
                   results, nonRunVars>>

RunNext ==
    \/ Prepare \/ SubmitTask \/ SubmitDone \/ StartTask \/ TaskStep
    \/ Collect \/ ApplyRow \/ StageDone \/ AddColumns \/ Save

SpecRun == RunInit /\ [][RunNext]_vars

----------------------------------------------------------------------------
(* Claims about the runs *)

\* row i of the table lies in the range of the task of stage st that flt
\* names
Hit(flt, st, i) ==
    /\ flt[1] = st
    /\ i - 1 >= flt[2]
    /\ i - 1 < flt[2] + ChunkSizeOf(script, Len(df0), workers)

\* row i after a propagation stage computed from the table as loaded
MatchedRow(i, failed) ==
    LET r == df0[i]
        found == {m[2] : m \in {x \in ArticulMapping(df0) : x[1] \in ArticulsOf(r)}}
    IN  IF failed \/ HasVtrac(r) \/ found = {} THEN r
        ELSE WriteVtracs(r, SetToList(found))

\* a row after a consensus stage computed from its slots
ClusteredRow(r, failed) ==
    LET c == find_common_vtrac(r.vtrac)
    IN  IF failed \/ IsNa(c) THEN r ELSE WriteCommon(r, c)

\* row i of the output as a function of the table as loaded and of the task
\* that raises
ExpectedRow(i, flt) ==
    IF script = "search_3"
    THEN ColumnsOf(df0[i], IF Hit(flt, 0, i) THEN <<>>
                           ELSE process_row(RunArticleDict, RunAnalogDict, df0[i].art))
    ELSE ClusteredRow(MatchedRow(i, Hit(flt, 1, i)), Hit(flt, 2, i))

\* C6: the output table does not depend on the order in which the tasks
\* complete and are merged: every result is keyed by a row of its own
\* task's range, and every row of the output is the one computed from the
\* table as loaded.
C6_OutputIndependentOfOrder ==
    /\ \A t \in 1..Len(tasks) : \A k \in 1..Len(tasks[t].res) :
          tasks[t].res[k][1] \in tasks[t].start..(tasks[t].end - 1)
    /\ rpc = "saved" =>
          /\ Len(df) = Len(df0)
          /\ \A i \in 1..Len(df) : df[i] = ExpectedRow(i, faulty)

\* three tasks have run with two workers; the row between a row with
\* identifiers and another source row got the identifiers of both and their
\* consensus
C6_Witness ==
    /\ rpc = "saved"
    /\ script = "end_4"
    /\ faulty = NoFault
    /\ workers = 2
    /\ set_order = "forward"
    /\ Len(df) = 3
    /\ ~HasVtrac(df0[2])
    /\ df[2].vtrac = <<AB123456, AB123457, ZZ000000, NaN, NaN>>
    /\ df[2].common = Take(AB123456, 7)

\* C7: a failure of one task does not abort the run: the rows of the failing
\* task are left without its result, every other row is as in a run without
\* failure, and the run goes on to the output.
C7_TaskFailureAbsorbed ==
    /\ rpc # "aborted"
    /\ rpc = "saved" \/ RunCanStep
    /\ (rpc = "saved" /\ faulty # NoFault) =>
          \A i \in 1..Len(df) :
              IF Hit(faulty, faulty[1], i)
              THEN CASE faulty[1] = 0 -> df[i].vtrac = AllMissing(NumVtracCols)
                     [] faulty[1] = 1 -> df[i].vtrac = df0[i].vtrac
                     [] OTHER         -> IsNa(df[i].common)
              ELSE df[i] = ExpectedRow(i, NoFault)

\* the propagation task of the second row raised: that row is still without
\* identifiers, the third row got its identifiers and its consensus
C7_Witness ==
    /\ rpc = "saved"
    /\ script = "end_4"
    /\ faulty = <<1, 1>>
    /\ Len(df) = 3
    /\ ~HasVtrac(df[2])
    /\ ArticulsOf(df[2]) = ArticulsOf(df[3])
    /\ ~HasVtrac(df0[3])
    /\ HasVtrac(df[3])
    /\ df[3].common = Take(AB123456, 7)

\* the consensus of row i computed from its slots after the propagation stage
FinalConsensus(i) ==
    LET c == find_common_vtrac(MatchedRow(i, Hit(faulty, 1, i)).vtrac)
    IN  IF IsNa(c) \/ c = <<>> THEN <<>> ELSE <<<<i - 1, c>>>>

\* C14: in a run of end_4, no consensus is written while the propagation
\* stage runs; from the moment the consensus stage begins every row holds its
\* final identifier slots, and every row a consensus task reads gives the
\* consensus of those final slots.
C14_ConsensusOnEnrichedTable ==
    [][ script = "end_4" =>
          /\ stage = 1 =>
                \A i \in 1..Len(df) : df'[i].common = df0[i].common
          /\ stage' = 2 =>
                \A i \in 1..Len(df) :
                    df'[i].vtrac = MatchedRow(i, Hit(faulty, 1, i)).vtrac
          /\ stage = 2 =>
                \A t \in 1..Len(tasks) :
                    (Len(tasks') >= t /\ tasks'[t].idx = tasks[t].idx + 1) =>
                        tasks'[t].res =
                            tasks[t].res \o FinalConsensus(tasks[t].idx + 1) ]_vars

\* a consensus task has read the second row, which was without identifiers
\* when loaded, and has found the consensus of the identifiers the
\* propagation stage gave it
C14_Witness ==
    /\ script = "end_4"
    /\ stage = 2
    /\ faulty = NoFault
    /\ Len(df) = 3
    /\ ~HasVtrac(df0[2])
    /\ HasVtrac(df[2])
    /\ \E t \in 1..Len(tasks) :
          /\ tasks[t].st = "running"
          /\ tasks[t].res = <<<<1, Take(AB123456, 7)>>>>
          /\ IsNa(df[2].common)

\* the rows that, as loaded, hold an identifier and share an additional part
\* number with row i
Donors(i) ==
    {k \in 1..Len(df0) :
        HasVtrac(df0[k]) /\ ArticulsOf(df0[k]) \cap ArticulsOf(df0[i]) # {}}

\* C15: in a run of end_4, a row that held an identifier when loaded keeps
\* its part numbers and slots, and is unchanged as long as the propagation
\* stage runs; a slot of any other row is blank or holds an identifier that a
\* row sharing an additional part number with it held when loaded.
C15_PropagationFrame ==
    script = "end_4" =>
        \A i \in 1..Len(df) :
            IF HasVtrac(df0[i])
            THEN /\ df[i].art = df0[i].art
                 /\ df[i].vtrac = df0[i].vtrac
                 /\ stage = 1 => df[i] = df0[i]
            ELSE /\ df[i].art = df0[i].art
                 /\ \A c \in 1..NumVtracCols :
                       \/ IsNa(df[i].vtrac[c])
                       \/ \E k \in Donors(i) : df[i].vtrac[c] \in VtracsOf(df0[k])

\* the propagation stage has merged its results: the first row, which shares
\* a part number with the second, kept its two identifiers, and the second
\* row got them
C15_Witness ==
    /\ script = "end_4"
    /\ stage = 1
    /\ rpc = "collect"
    /\ Len(df) = 2
    /\ df0[1].vtrac = Slots(AB123456, AB123457)
    /\ df[1] = df0[1]
    /\ ~HasVtrac(df0[2])
    /\ VtracsOf(df[2]) = {AB123456, AB123457}
    /\ \A t \in 1..Len(tasks) : tasks[t].st = "collected"

----------------------------------------------------------------------------
(* Specification of the submission loop of run_parallel_processing alone,  *)
(* over longer tables and larger pools                                     *)

\* the longest table and the largest pool of the submission loop
MaxTableLen == 10
MaxPoolSize == 4

\* a row without part numbers and identifiers
EmptyRow == BlankRow(Record(NaN, NaN, NaN))

SubmitInit ==
    /\ TextIdle
    /\ FinderIdle
    /\ ClusterIdle
    /\ script = "end_4"
    /\ workers \in 1..MaxPoolSize
    /\ set_order = "forward"
    /\ df0 \in {[i \in 1..n |-> EmptyRow] : n \in 0..MaxTableLen}
    /\ df = df0
    /\ faulty = NoFault
    /\ articul_to_vtrac = ArticulMapping(df0)
    /\ rpc = "submit"
    /\ stage = 1
    /\ next_start = 0
    /\ tasks = <<>>
    /\ pending = <<>>
    /\ results = <<>>

SubmitNext == SubmitTask \/ SubmitDone

SpecSubmit == SubmitInit /\ [][SubmitNext]_vars

\* the row indices of the range of task t
RangeOf(t) == {i \in 0..(Len(df) - 1) : tasks[t].start <= i /\ i < tasks[t].end}

\* C16: the ranges submitted so far are non-empty, start at row 0, follow
\* one another without gap or overlap and do not extend past the table; once
\* the submission loop has ended every row index lies in exactly one range,
\* and an empty table has no task.
C16_RangesPartitionRows ==
    /\ \A t \in 1..Len(tasks) :
          /\ tasks[t].start < tasks[t].end
          /\ tasks[t].end <= Len(df)
          /\ tasks[t].start = IF t = 1 THEN 0 ELSE tasks[t - 1].end
    /\ rpc \in {"collect", "apply"} =>
          /\ \A i \in 0..(Len(df) - 1) :
                Cardinality({t \in 1..Len(tasks) : i \in RangeOf(t)}) = 1
          /\ Len(df) = 0 => tasks = <<>>

\* a table of 7 rows and a pool of 3: chunks of 2 and a last range of 1 row
C16_Witness ==
    /\ rpc = "collect"
    /\ Len(df) = 7
    /\ workers = 3
    /\ Len(tasks) = 4
    /\ tasks[4].start = 6
    /\ tasks[4].end = 7

=============================================================================
